---- MODULE Spec2Model ----
(***************************************************************************)
(* garrison: label-driven backup of container volumes.                     *)
(*                                                                         *)
(* The module models src/garrison/containers.py and                        *)
(* src/garrison/__main__.py: the eligibility filter, the volume selector,  *)
(* the construction of a backup job (command, name, volume mapping), and   *)
(* main's launch / wait / cleanup protocol against a container runtime     *)
(* whose job containers start, exit and disappear on their own.            *)
(*                                                                         *)
(* Python strings that the code takes apart (startswith, removeprefix,     *)
(* split, concatenation) are sequences of one-character strings.  None is  *)
(* the one-element sequence <<"None">>, which is no such string.           *)
(***************************************************************************)
EXTENDS Integers, Sequences, FiniteSets, TLC

VARIABLES
    BACKUP_CONTAINER_COMMAND, \* env: the command template (a sequence of template parts)
    REQUIRE_ENABLE,           \* env: REQUIRE_ENABLE == "true"
    pc,                       \* where main is
    error,                    \* the exception that ended main, "none" while there is none
    containers,               \* main: the eligible containers of this run
    ci,                       \* main: index of the container being processed
    volumes,                  \* main: the selected volumes of containers[ci]
    vi,                       \* main: index of the next volume of containers[ci]
    backup_container,         \* run_backup_container: id of the job just submitted
    backup_container_ids,     \* main: the tracked list
    elapsed,                  \* time.time() - start_time
    rt,                       \* the runtime: job name -> job container, or NoJob
    created,                  \* history: ids of the jobs this run created
    cleanup_i,                \* main: index of the tracked job the cleanup loop is at
    removed,                  \* history: ids of the jobs this run removed
    call,                     \* arguments of the function under study (function-level specifications)
    result                    \* its return value

vars == <<BACKUP_CONTAINER_COMMAND, REQUIRE_ENABLE, pc, error, containers, ci, volumes, vi,
          backup_container, backup_container_ids, elapsed, rt, created, cleanup_i, removed,
          call, result>>

mainVars == <<BACKUP_CONTAINER_COMMAND, REQUIRE_ENABLE, error, containers, ci, volumes, vi,
              backup_container, backup_container_ids, elapsed, rt, created, cleanup_i,
              removed>>

----------------------------------------------------------------------------
(* Strings *)

None == <<"None">>

s_empty == <<>>                                              \* ""
s_true == <<"t","r","u","e">>                                \* "true"
s_false == <<"f","a","l","s","e">>                           \* "false"
s_yes == <<"y","e","s">>                                     \* "yes"
s_ro == <<"r","o">>                                          \* "ro"
s_rw == <<"r","w">>                                          \* "rw"
s_garrison_ == <<"g","a","r","r","i","s","o","n","_">>       \* "garrison_"
s_garrison == <<"g","a","r","r","i","s","o","n">>            \* "garrison"
s_web == <<"w","e","b">>                                     \* "web"
s_db == <<"d","b">>                                          \* "db"
s_shop == <<"s","h","o","p">>                                \* "shop"
s_data == <<"d","a","t","a">>                                \* "data"
s_cache == <<"c","a","c","h","e">>                           \* "cache"
s_shop_data == <<"s","h","o","p","_","d","a","t","a">>       \* "shop_data"
s_shop_cache == <<"s","h","o","p","_","c","a","c","h","e">>  \* "shop_cache"
s_pgdata == <<"p","g","d","a","t","a">>                      \* "pgdata"
s_etc_conf == <<"/","e","t","c","/","c","o","n","f">>        \* "/etc/conf"
s_v_a == <<"/","v","/","a">>                                 \* "/v/a"
s_v_b == <<"/","v","/","b">>                                 \* "/v/b"
s_v_c == <<"/","v","/","c">>                                 \* "/v/c"
s_d_data == <<"/","d","a","t","a">>                          \* "/data"
s_d_cache == <<"/","c","a","c","h","e">>                     \* "/cache"
s_d_conf == <<"/","c","o","n","f">>                          \* "/conf"
s_d_pg == <<"/","p","g">>                                    \* "/pg"
s_bak == <<"/","b","a","k">>                                 \* "/bak"
s_c1 == <<"c","1">>                                          \* "c1"
s_c2 == <<"c","2">>                                          \* "c2"
s_g0 == <<"g","0">>                                          \* "g0"
s_j1 == <<"j","1">>                                          \* "j1"
s_server == <<"h","o","s","t">>                              \* "host"

\* str + str
Concat(a, b) == a \o b

\* str.startswith(prefix)
StartsWith(s, prefix) ==
    /\ Len(s) >= Len(prefix)
    /\ SubSeq(s, 1, Len(prefix)) = prefix

\* str.removeprefix(prefix)
RemovePrefix(s, prefix) ==
    IF StartsWith(s, prefix) THEN SubSeq(s, Len(prefix) + 1, Len(s)) ELSE s

\* index of the first occurrence of the character sep in s, 0 when there is none
RECURSIVE Find(_, _, _)
Find(s, sep, i) ==
    IF i > Len(s) THEN 0
    ELSE IF s[i] = sep THEN i
    ELSE Find(s, sep, i + 1)

\* str.split(sep) for a one-character separator: never the empty list
RECURSIVE Split(_, _)
Split(s, sep) ==
    LET i == Find(s, sep, 1) IN
    IF i = 0 THEN <<s>>
    ELSE <<SubSeq(s, 1, i - 1)>> \o Split(SubSeq(s, i + 1, Len(s)), sep)

\* the elements of a list
Elems(list) == {list[i] : i \in 1..Len(list)}

\* "x in y" where y is a list, or the empty string that a falsy label value stays
In(x, y) == IF y = s_empty THEN x = s_empty ELSE x \in Elems(y)

\* dict.get(key, default)
Get(d, key, default) == IF key \in DOMAIN d THEN d[key] ELSE default

\* Python truthiness of an optional string
Truthy(s) == s # None /\ s # s_empty

\* None where a list of strings is expected
NoList == <<None>>

\* the empty dict
EmptyDict == [k \in {} |-> None]

\* {**a, **b}: the entries of b replace those of a
Merge(a, b) ==
    [k \in DOMAIN a \cup DOMAIN b |-> IF k \in DOMAIN b THEN b[k] ELSE a[k]]

----------------------------------------------------------------------------
(* Label names of garrison.constants *)

ENABLE_LABEL == "garrison.enable"
VOLUME_INCLUDE_LABEL == "garrison.volumes.include"
VOLUME_EXCLUDE_LABEL == "garrison.volumes.exclude"
INCLUDE_BIND_MOUNTS_LABEL == "garrison.include-bind-mounts"
COMPOSE_PROJECT_LABEL == "com.docker.compose.project"

----------------------------------------------------------------------------
(* containers.py: get_enabled_containers *)

\* container_info of one listed container
ContainerInfoOf(container) ==
    [id |-> container.id,
     name |-> container.name,
     labels |-> container.labels,
     project |-> Get(container.labels, COMPOSE_PROJECT_LABEL, None)]

\* "if self_container and container.id == self_container.id"; self_container is an
\* id, or None when the lookup of the hostname raised NotFound
IsSelf(container, self_container) ==
    self_container # None /\ container.id = self_container

\* mutant: the prefix is looked for in the id instead of the name
IsLeftOver_by_id(container_info) ==
    StartsWith(container_info.id, s_garrison_)

\* the name check: a job container of garrison
IsLeftOverBackupContainer(container_info) ==
    StartsWith(container_info.name, s_garrison_)

\* mutant: a container without the label counts as disabled
BackupDisabled_default_false(container_info) ==
    Get(container_info.labels, ENABLE_LABEL, s_false) = s_false

\* labels.get(ENABLE_LABEL, "true") == "false"
BackupDisabled(container_info) ==
    Get(container_info.labels, ENABLE_LABEL, s_true) = s_false

\* require_enabled and labels.get(ENABLE_LABEL, "false") != "true"
NotExplicitlyEnabled(container_info, require_enabled) ==
    require_enabled /\ Get(container_info.labels, ENABLE_LABEL, s_false) # s_true

\* one pass of the loop body: whether the container is appended
IsAppended(container, self_container, require_enabled) ==
    /\ ~IsSelf(container, self_container)
    /\ ~IsLeftOverBackupContainer(ContainerInfoOf(container))
    /\ ~BackupDisabled(ContainerInfoOf(container))
    /\ ~NotExplicitlyEnabled(ContainerInfoOf(container), require_enabled)

RECURSIVE get_enabled_containers(_, _, _)
get_enabled_containers(listed, self_container, require_enabled) ==
    IF listed = <<>> THEN <<>>
    ELSE (IF IsAppended(Head(listed), self_container, require_enabled)
          THEN <<ContainerInfoOf(Head(listed))>> ELSE <<>>)
         \o get_enabled_containers(Tail(listed), self_container, require_enabled)

----------------------------------------------------------------------------
(* containers.py: get_included_container_volumes *)

\* the include / exclude label: None (NoList), the empty string, or the split list
VolumeList(container, label) ==
    LET v == Get(container.labels, label, None) IN
    IF v = None THEN NoList
    ELSE IF Truthy(v) THEN Split(v, ",") ELSE v

\* mutant: a mount without a Name has no volume_name to match a list with
VolumeName_name_only(container, volume) ==
    IF Truthy(container.project)
    THEN RemovePrefix(volume.Name, Concat(container.project, <<"_">>))
    ELSE volume.Name

\* volume_name: the mount's Name (its Source when it has none), without "<project>_"
VolumeName(container, volume) ==
    LET volume_name == IF volume.Name # None THEN volume.Name ELSE volume.Source IN
    IF Truthy(container.project)
    THEN RemovePrefix(volume_name, Concat(container.project, <<"_">>))
    ELSE volume_name

\* mutant: bind mounts are kept whatever include_bind_mount is
IsSkippedVolume_binds_kept(container, volume, include_bind_mount) ==
    LET included_volumes == VolumeList(container, VOLUME_INCLUDE_LABEL)
        excluded_volumes == VolumeList(container, VOLUME_EXCLUDE_LABEL)
        volume_name == VolumeName(container, volume) IN
    \/ (included_volumes # NoList /\ ~In(volume_name, included_volumes))
    \/ (excluded_volumes # NoList /\ In(volume_name, excluded_volumes))

\* mutant: a name on the include list is kept although it is on the exclude list
IsSkippedVolume_include_wins(container, volume, include_bind_mount) ==
    LET included_volumes == VolumeList(container, VOLUME_INCLUDE_LABEL)
        excluded_volumes == VolumeList(container, VOLUME_EXCLUDE_LABEL)
        volume_name == VolumeName(container, volume) IN
    \/ (include_bind_mount = FALSE /\ volume.Type = "bind")
    \/ (included_volumes # NoList /\ ~In(volume_name, included_volumes))
    \/ (/\ included_volumes = NoList
        /\ excluded_volumes # NoList /\ In(volume_name, excluded_volumes))

\* the three "continue" branches of the loop body
IsSkippedVolume(container, volume, include_bind_mount) ==
    LET included_volumes == VolumeList(container, VOLUME_INCLUDE_LABEL)
        excluded_volumes == VolumeList(container, VOLUME_EXCLUDE_LABEL)
        volume_name == VolumeName(container, volume) IN
    \/ (include_bind_mount = FALSE /\ volume.Type = "bind")
    \/ (included_volumes # NoList /\ ~In(volume_name, included_volumes))
    \/ (excluded_volumes # NoList /\ In(volume_name, excluded_volumes))

\* mutant: the record carries the stripped name
VolumeInfoOf_stripped(container, volume) ==
    [type |-> volume.Type,
     name |-> IF volume.Name = None THEN None ELSE VolumeName(container, volume),
     source |-> volume.Source,
     destination |-> volume.Destination]

\* the record appended for a mount that is not skipped
VolumeInfoOf(container, volume) ==
    [type |-> volume.Type,
     name |-> volume.Name,
     source |-> volume.Source,
     destination |-> volume.Destination]

\* mounts is docker_container.attrs["Mounts"] of the container
RECURSIVE get_included_container_volumes(_, _, _)
get_included_container_volumes(container, include_bind_mount, mounts) ==
    IF mounts = <<>> THEN <<>>
    ELSE (IF IsSkippedVolume(container, Head(mounts), include_bind_mount)
          THEN <<>> ELSE <<VolumeInfoOf(container, Head(mounts))>>)
         \o get_included_container_volumes(container, include_bind_mount, Tail(mounts))

----------------------------------------------------------------------------
(* __main__.py: the job of one (container, volume) pair *)

s_None == <<"N","o","n","e">>                                \* str(None)
s_KeyError == <<"K","e","y","E","r","r","o","r">>            \* marks a raised KeyError

\* hashlib.md5(source.encode()).hexdigest(), tabulated for the paths of the model
md5_v_a == <<"7","a","9","1","7","9","7","7","7","d","c","f","e","d","7","7","5","7","2","b","2","3","7","2","9","4","3","d","f","7","d","6">>
md5_v_b == <<"b","a","3","8","8","3","3","7","d","2","8","5","e","8","5","d","7","c","3","6","2","c","e","6","5","e","b","4","9","6","7","2">>
md5_v_c == <<"a","b","a","b","6","d","e","d","f","2","e","2","f","f","0","0","b","e","3","6","a","8","b","e","4","e","2","3","d","5","e","d">>
md5_etc_conf == <<"f","3","4","c","8","6","4","b","a","1","d","8","5","e","5","d","8","e","d","c","4","9","6","4","d","5","2","1","7","0","3","d">>

md5hex(source) ==
    CASE source = s_v_a -> md5_v_a
      [] source = s_v_b -> md5_v_b
      [] source = s_v_c -> md5_v_c
      [] source = s_etc_conf -> md5_etc_conf

\* the result of a call that may raise: the value, or the exception's name
Return(v) == [raised |-> "none", value |-> v]
Raise(exc) == [raised |-> exc, value |-> None]

\* _get_extra_volumes_for_backup_container: one pass of the loop body over
\* volume_str, starting from the dict extra_volumes
ExtraVolumeStep(extra_volumes, volume_str) ==
    LET volume_parts == Split(volume_str, ":")
        parts == IF Len(volume_parts) = 2 THEN Append(volume_parts, s_rw) ELSE volume_parts IN
    IF volume_str = s_empty THEN Return(extra_volumes)
    ELSE IF Len(parts) < 3 THEN Raise("IndexError")
    ELSE Return(Merge(extra_volumes,
                      [k \in {parts[1]} |-> [bind |-> parts[2], mode |-> parts[3]]]))

RECURSIVE ExtraVolumesLoop(_, _)
ExtraVolumesLoop(extra_volumes, strs) ==
    IF strs = <<>> THEN Return(extra_volumes)
    ELSE LET r == ExtraVolumeStep(extra_volumes, Head(strs)) IN
         IF r.raised # "none" THEN r ELSE ExtraVolumesLoop(r.value, Tail(strs))

\* _get_extra_volumes_for_backup_container, of the value of BACKUP_CONTAINER_VOLUMES
get_extra_volumes_for_backup_container(backup_container_volumes) ==
    ExtraVolumesLoop(EmptyDict, Split(backup_container_volumes, ","))

\* str.format(**kwargs) of a template given as its parts: literal text
\* [lit |-> chars] and replacement fields [field |-> name]
RECURSIVE Format(_, _)
Format(template, kwargs) ==
    IF template = <<>> THEN s_empty
    ELSE LET part == Head(template)
             rest == Format(Tail(template), kwargs) IN
         IF "lit" \in DOMAIN part
         THEN (IF rest = s_KeyError THEN s_KeyError ELSE Concat(part.lit, rest))
         ELSE IF part.field \notin DOMAIN kwargs \/ rest = s_KeyError THEN s_KeyError
         ELSE Concat((IF kwargs[part.field] = None THEN s_None ELSE kwargs[part.field]), rest)

\* the keyword arguments of BACKUP_CONTAINER_COMMAND.format(...)
CommandArgs(container, volume, server_name) ==
    [server_name |-> server_name,
     project_name |-> container.project,
     container_name |-> container.name,
     volume_name |-> IF Truthy(volume.name) THEN volume.name ELSE md5hex(volume.source),
     volume_path |-> volume.destination]

\* f"garrison_{container['id']}_{volume_hash}"
JobName(container_id, source) ==
    Concat(Concat(Concat(s_garrison_, container_id), <<"_">>), md5hex(source))

\* the volumes argument: {volume["name"]: {...}, **extra_volumes}
VolumeMapping(volume, extra_volumes) ==
    Merge([k \in {volume.name} |-> [bind |-> volume.destination, mode |-> s_ro]],
          extra_volumes)

\* mutant: the job is named by the volume name of the command (the logical name,
\* the hash of the source only when there is none)
trigger_backup_named_by_volume(container, volume, server_name, command_template, backup_container_volumes) ==
    LET extra_volumes == get_extra_volumes_for_backup_container(backup_container_volumes)
        args == CommandArgs(container, volume, server_name)
        command == Format(command_template, args) IN
    IF extra_volumes.raised # "none" THEN extra_volumes
    ELSE IF command = s_KeyError THEN Raise("KeyError")
    ELSE Return([command |-> command,
                 name |-> Concat(Concat(Concat(s_garrison_, container.id), <<"_">>),
                                 args.volume_name),
                 volumes |-> VolumeMapping(volume, extra_volumes.value)])

\* _trigger_backup up to the call of run_backup_container: the arguments of that
\* call, or the exception raised before it
trigger_backup(container, volume, server_name, command_template, backup_container_volumes) ==
    LET extra_volumes == get_extra_volumes_for_backup_container(backup_container_volumes)
        command == Format(command_template, CommandArgs(container, volume, server_name)) IN
    IF extra_volumes.raised # "none" THEN extra_volumes
    ELSE IF command = s_KeyError THEN Raise("KeyError")
    ELSE Return([command |-> command,
                 name |-> JobName(container.id, volume.source),
                 volumes |-> VolumeMapping(volume, extra_volumes.value)])

----------------------------------------------------------------------------
(* The runtime and the environment of a run *)

START_TIMEOUT == 30     \* run_backup_container: seconds to leave "created"
START_POLL == 1         \* run_backup_container: sleep between two polls
WAIT_DEADLINE == 120    \* main: the deadline of the completion wait
WAIT_POLL == 5          \* main: sleep between two polls of the completion wait
MaxElapsed == 125       \* the completion wait is followed up to this elapsed time

\* the containers the runtime lists besides job containers: garrison's own
\* container, and two application containers
SelfContainer ==
    [id |-> s_g0, name |-> s_garrison, labels |-> EmptyDict]
WebContainer ==
    [id |-> s_c1, name |-> s_web,
     labels |-> [k \in {ENABLE_LABEL, COMPOSE_PROJECT_LABEL} |->
                    IF k = ENABLE_LABEL THEN s_true ELSE s_shop]]
DbContainer ==
    [id |-> s_c2, name |-> s_db, labels |-> EmptyDict]

\* attrs["Mounts"] of a container
Mounts(container_id) ==
    IF container_id = s_c1
    THEN <<[Type |-> "volume", Name |-> s_shop_data, Source |-> s_v_a, Destination |-> s_d_data],
           [Type |-> "bind", Name |-> None, Source |-> s_etc_conf, Destination |-> s_d_conf],
           [Type |-> "volume", Name |-> s_shop_cache, Source |-> s_v_b, Destination |-> s_d_cache]>>
    ELSE IF container_id = s_c2
    THEN <<[Type |-> "volume", Name |-> s_pgdata, Source |-> s_v_c, Destination |-> s_d_pg]>>
    ELSE <<>>

\* the names a job container can have, in a fixed order, and the id the runtime
\* gives the job container of each name
JobNameSeq ==
    <<JobName(s_c1, s_v_a), JobName(s_c1, s_v_b), JobName(s_c2, s_v_c),
      JobName(s_c1, s_etc_conf)>>
JobNames == Elems(JobNameSeq)
JobIdSeq == <<<<"j","1">>, <<"j","2">>, <<"j","3">>, <<"j","4">>>>
NewId(name) == JobIdSeq[CHOOSE i \in 1..Len(JobNameSeq) : JobNameSeq[i] = name]

NoJob == [id |-> None, status |-> "absent", exit_code |-> 0]
ExitCodes == {0, 137}

\* client.containers.list(): the running containers
RECURSIVE RunningJobs(_, _)
RunningJobs(runtime, names) ==
    IF names = <<>> THEN <<>>
    ELSE (IF runtime[Head(names)].status = "running"
          THEN <<[id |-> runtime[Head(names)].id, name |-> Head(names), labels |-> EmptyDict]>>
          ELSE <<>>)
         \o RunningJobs(runtime, Tail(names))

ListContainers(runtime) ==
    <<SelfContainer, WebContainer, DbContainer>> \o RunningJobs(runtime, JobNameSeq)

\* client.containers.get(container_id): the job container, or the exception
ContainersGet(runtime, container_id) ==
    IF container_id = None THEN Raise("NullResource")
    ELSE IF \E n \in JobNames : runtime[n].id = container_id
    THEN Return(runtime[CHOOSE n \in JobNames : runtime[n].id = container_id])
    ELSE Raise("NotFound")

\* containers.py: get_container_exit_status
get_container_exit_status(runtime, container_id) ==
    LET docker_container == ContainersGet(runtime, container_id) IN
    IF docker_container.raised # "none" THEN docker_container
    ELSE IF docker_container.value.status # "exited" THEN Return(-1)
    ELSE Return(docker_container.value.exit_code)

\* mutant: only the first job of the list is asked for its status
AllExited_first(runtime, ids) ==
    IF ids = <<>> THEN Return(TRUE)
    ELSE LET status == get_container_exit_status(runtime, Head(ids)) IN
         IF status.raised # "none" THEN status
         ELSE Return(status.value # -1)

\* all(get_container_exit_status(id) != -1 for id in ids): stops at the first -1
RECURSIVE AllExited(_, _)
AllExited(runtime, ids) ==
    IF ids = <<>> THEN Return(TRUE)
    ELSE LET status == get_container_exit_status(runtime, Head(ids)) IN
         IF status.raised # "none" THEN status
         ELSE IF status.value = -1 THEN Return(FALSE)
         ELSE AllExited(runtime, Tail(ids))

\* os.getenv("BACKUP_CONTAINER_VOLUMES", "") of the runs
BACKUP_CONTAINER_VOLUMES == s_empty

\* two values of BACKUP_CONTAINER_COMMAND: "b {volume_name} {volume_path}" and
\* "b {volume}", whose placeholder format() is given no value for
GoodTemplate ==
    <<[lit |-> <<"b", " ">>], [field |-> "volume_name"], [lit |-> <<" ">>], [field |-> "volume_path"]>>
BadTemplate ==
    <<[lit |-> <<"b", " ">>], [field |-> "volume"]>>

----------------------------------------------------------------------------
(* __main__.py: main, one action per step between two calls of the runtime *)

Init ==
    /\ BACKUP_CONTAINER_COMMAND \in {GoodTemplate, BadTemplate}
    /\ REQUIRE_ENABLE \in BOOLEAN
    /\ pc = "start"
    /\ error = "none"
    /\ containers = <<>>
    /\ ci = 0
    /\ volumes = <<>>
    /\ vi = 0
    /\ backup_container = None
    /\ backup_container_ids = <<>>
    /\ elapsed = 0
    /\ rt = [n \in JobNames |-> NoJob]
    /\ created = {}
    /\ cleanup_i = 0
    /\ removed = {}
    /\ call = <<>>
    /\ result = <<>>

\* an exception that nothing catches leaves main
Crash(exc) ==
    /\ pc' = "crashed"
    /\ error' = exc

\* lines 78-86: the eligible containers; main returns when there are none
StartRun ==
    /\ pc = "start"
    /\ containers' = get_enabled_containers(ListContainers(rt), SelfContainer.id, REQUIRE_ENABLE)
    /\ backup_container_ids' = <<>>
    /\ ci' = 1
    /\ pc' = IF containers' = <<>> THEN "done" ELSE "containers"
    /\ UNCHANGED <<BACKUP_CONTAINER_COMMAND, REQUIRE_ENABLE, error, volumes, vi, backup_container,
                   elapsed, rt, created, cleanup_i, removed, call, result>>

\* lines 88-98: the next container and its selected volumes
NextContainer ==
    /\ pc = "containers"
    /\ ci <= Len(containers)
    /\ volumes' = get_included_container_volumes(
                      containers[ci],
                      Get(containers[ci].labels, INCLUDE_BIND_MOUNTS_LABEL, s_false) = s_true,
                      Mounts(containers[ci].id))
    /\ vi' = 1
    /\ pc' = "volumes"
    /\ UNCHANGED <<BACKUP_CONTAINER_COMMAND, REQUIRE_ENABLE, error, containers, ci, backup_container,
                   backup_container_ids, elapsed, rt, created, cleanup_i, removed, call, result>>

\* the volumes of containers[ci] are exhausted
VolumesDone ==
    /\ pc = "volumes"
    /\ vi > Len(volumes)
    /\ ci' = ci + 1
    /\ pc' = "containers"
    /\ UNCHANGED <<BACKUP_CONTAINER_COMMAND, REQUIRE_ENABLE, error, containers, volumes, vi,
                   backup_container, backup_container_ids, elapsed, rt, created, cleanup_i,
                   removed, call, result>>

\* the arguments _trigger_backup passes to run_backup_container for volumes[vi]
Request ==
    trigger_backup(containers[ci], volumes[vi], s_server, BACKUP_CONTAINER_COMMAND,
                   BACKUP_CONTAINER_VOLUMES)

\* mutant: main suppresses nothing
IsSuppressed_nothing(exc) == FALSE

\* mutant: main suppresses every exception
IsSuppressed_all(exc) == TRUE

\* whether main's "with contextlib.suppress(...)" absorbs the exception
IsSuppressed(exc) == exc = "ContainerNotStartedException"

\* lines 104-107: an exception leaves _trigger_backup inside the "with" block:
\* suppressed, the append is skipped and the loop goes on; otherwise it leaves main
LaunchRaises(exc) ==
    IF IsSuppressed(exc)
    THEN /\ pc' = "volumes"
         /\ vi' = vi + 1
         /\ error' = error
    ELSE /\ Crash(exc)
         /\ vi' = vi

\* lines 55-64: _trigger_backup raises before it submits anything
TriggerBackupRaises ==
    /\ pc = "volumes"
    /\ vi <= Len(volumes)
    /\ Request.raised # "none"
    /\ LaunchRaises(Request.raised)
    /\ UNCHANGED <<BACKUP_CONTAINER_COMMAND, REQUIRE_ENABLE, containers, ci, volumes,
                   backup_container, backup_container_ids, elapsed, rt, created, cleanup_i,
                   removed, call, result>>

\* mutant: on 409 the id of the container that holds the name is returned
SubmitNameConflict_tracks_existing ==
    /\ pc = "volumes"
    /\ vi <= Len(volumes)
    /\ Request.raised = "none"
    /\ rt[Request.value.name] # NoJob
    /\ backup_container_ids' = Append(backup_container_ids, rt[Request.value.name].id)
    /\ vi' = vi + 1
    /\ UNCHANGED <<BACKUP_CONTAINER_COMMAND, REQUIRE_ENABLE, pc, error, containers, ci, volumes,
                   backup_container, elapsed, rt, created, cleanup_i, removed, call, result>>

\* containers.py 203-211: the runtime answers 409, run_backup_container returns
\* None, and main appends what it returned (line 105)
SubmitNameConflict ==
    /\ pc = "volumes"
    /\ vi <= Len(volumes)
    /\ Request.raised = "none"
    /\ rt[Request.value.name] # NoJob
    /\ backup_container_ids' = Append(backup_container_ids, None)
    /\ vi' = vi + 1
    /\ UNCHANGED <<BACKUP_CONTAINER_COMMAND, REQUIRE_ENABLE, pc, error, containers, ci, volumes,
                   backup_container, elapsed, rt, created, cleanup_i, removed, call, result>>

\* containers.py 203-211: the runtime answers another error, which is raised
\* again (line 211) and leaves _trigger_backup
SubmitFails ==
    /\ pc = "volumes"
    /\ vi <= Len(volumes)
    /\ Request.raised = "none"
    /\ LaunchRaises("APIError")
    /\ UNCHANGED <<BACKUP_CONTAINER_COMMAND, REQUIRE_ENABLE, containers, ci, volumes,
                   backup_container, backup_container_ids, elapsed, rt, created, cleanup_i,
                   removed, call, result>>

\* mutant: the id is returned as soon as the job container is created, and the
\* next pair is submitted without a wait for the start
SubmitCreates_detached ==
    /\ pc = "volumes"
    /\ vi <= Len(volumes)
    /\ Request.raised = "none"
    /\ rt[Request.value.name] = NoJob
    /\ rt' = [rt EXCEPT ![Request.value.name] =
                 [id |-> NewId(Request.value.name), status |-> "created", exit_code |-> 0]]
    /\ backup_container' = NewId(Request.value.name)
    /\ created' = created \cup {NewId(Request.value.name)}
    /\ backup_container_ids' = Append(backup_container_ids, NewId(Request.value.name))
    /\ vi' = vi + 1
    /\ UNCHANGED <<BACKUP_CONTAINER_COMMAND, REQUIRE_ENABLE, pc, error, containers, ci, volumes,
                   elapsed, cleanup_i, removed, call, result>>

\* containers.py 195-213: the job container is created; start_time = time.time()
SubmitCreates ==
    /\ pc = "volumes"
    /\ vi <= Len(volumes)
    /\ Request.raised = "none"
    /\ rt[Request.value.name] = NoJob
    /\ rt' = [rt EXCEPT ![Request.value.name] =
                 [id |-> NewId(Request.value.name), status |-> "created", exit_code |-> 0]]
    /\ backup_container' = NewId(Request.value.name)
    /\ created' = created \cup {NewId(Request.value.name)}
    /\ elapsed' = 0
    /\ pc' = "starting"
    /\ UNCHANGED <<BACKUP_CONTAINER_COMMAND, REQUIRE_ENABLE, error, containers, ci, volumes, vi,
                   backup_container_ids, cleanup_i, removed, call, result>>

\* containers.py 215: the lookup of the job container raises
StartPollRaises ==
    /\ pc = "starting"
    /\ ContainersGet(rt, backup_container).raised # "none"
    /\ LaunchRaises(ContainersGet(rt, backup_container).raised)
    /\ UNCHANGED <<BACKUP_CONTAINER_COMMAND, REQUIRE_ENABLE, containers, ci, volumes,
                   backup_container, backup_container_ids, elapsed, rt, created, cleanup_i,
                   removed, call, result>>

\* containers.py 215-216, 222: still "created" and within the timeout: sleep
StartPollSleeps ==
    /\ pc = "starting"
    /\ ContainersGet(rt, backup_container).raised = "none"
    /\ ContainersGet(rt, backup_container).value.status = "created"
    /\ ~(elapsed > START_TIMEOUT)
    /\ elapsed' = elapsed + START_POLL
    /\ UNCHANGED <<BACKUP_CONTAINER_COMMAND, REQUIRE_ENABLE, pc, error, containers, ci, volumes,
                   vi, backup_container, backup_container_ids, rt, created, cleanup_i, removed,
                   call, result>>

\* containers.py 216-221 and __main__.py 104: ContainerNotStartedException is
\* raised, and suppressed around the append
StartPollTimesOut ==
    /\ pc = "starting"
    /\ ContainersGet(rt, backup_container).raised = "none"
    /\ ContainersGet(rt, backup_container).value.status = "created"
    /\ elapsed > START_TIMEOUT
    /\ LaunchRaises("ContainerNotStartedException")
    /\ UNCHANGED <<BACKUP_CONTAINER_COMMAND, REQUIRE_ENABLE, containers, ci, volumes,
                   backup_container, backup_container_ids, elapsed, rt, created, cleanup_i,
                   removed, call, result>>

\* containers.py 215, 224 and __main__.py 105: the job left "created"; its id is
\* returned and appended
StartPollReturns ==
    /\ pc = "starting"
    /\ ContainersGet(rt, backup_container).raised = "none"
    /\ ContainersGet(rt, backup_container).value.status # "created"
    /\ backup_container_ids' = Append(backup_container_ids, backup_container)
    /\ vi' = vi + 1
    /\ pc' = "volumes"
    /\ UNCHANGED <<BACKUP_CONTAINER_COMMAND, REQUIRE_ENABLE, error, containers, ci, volumes,
                   backup_container, elapsed, rt, created, cleanup_i, removed, call, result>>

\* line 110: every container is processed; start_time = time.time()
LaunchDone ==
    /\ pc = "containers"
    /\ ci > Len(containers)
    /\ elapsed' = 0
    /\ pc' = "wait"
    /\ UNCHANGED <<BACKUP_CONTAINER_COMMAND, REQUIRE_ENABLE, error, containers, ci, volumes, vi,
                   backup_container, backup_container_ids, rt, created, cleanup_i, removed,
                   call, result>>

\* lines 111-114: a poll raises
WaitRaises ==
    /\ pc = "wait"
    /\ AllExited(rt, backup_container_ids).raised # "none"
    /\ Crash(AllExited(rt, backup_container_ids).raised)
    /\ UNCHANGED <<BACKUP_CONTAINER_COMMAND, REQUIRE_ENABLE, containers, ci, volumes, vi,
                   backup_container, backup_container_ids, elapsed, rt, created, cleanup_i,
                   removed, call, result>>

\* whether the loop is left once the deadline has passed (lines 115-117: it is not)
LeavesAtDeadline(t) == FALSE

\* lines 111-118: some job has not exited; the deadline check does nothing; sleep
WaitSleeps ==
    /\ pc = "wait"
    /\ AllExited(rt, backup_container_ids).raised = "none"
    /\ AllExited(rt, backup_container_ids).value = FALSE
    /\ elapsed <= MaxElapsed
    /\ IF elapsed > WAIT_DEADLINE /\ LeavesAtDeadline(elapsed)
       THEN /\ pc' = "cleanup"
            /\ cleanup_i' = 1
            /\ elapsed' = elapsed
       ELSE /\ pc' = pc
            /\ cleanup_i' = cleanup_i
            /\ elapsed' = elapsed + WAIT_POLL
    /\ UNCHANGED <<BACKUP_CONTAINER_COMMAND, REQUIRE_ENABLE, error, containers, ci, volumes, vi,
                   backup_container, backup_container_ids, rt, created, removed, call, result>>

\* lines 111-114, 119: every tracked job has exited
WaitCompletes ==
    /\ pc = "wait"
    /\ AllExited(rt, backup_container_ids).raised = "none"
    /\ AllExited(rt, backup_container_ids).value = TRUE
    /\ cleanup_i' = 1
    /\ pc' = "cleanup"
    /\ UNCHANGED <<BACKUP_CONTAINER_COMMAND, REQUIRE_ENABLE, error, containers, ci, volumes, vi,
                   backup_container, backup_container_ids, elapsed, rt, created, removed,
                   call, result>>

\* the status the cleanup loop reads for the job it is at
CleanupStatus == get_container_exit_status(rt, backup_container_ids[cleanup_i])

\* line 120: the read raises
CleanupRaises ==
    /\ pc = "cleanup"
    /\ cleanup_i <= Len(backup_container_ids)
    /\ CleanupStatus.raised # "none"
    /\ Crash(CleanupStatus.raised)
    /\ UNCHANGED <<BACKUP_CONTAINER_COMMAND, REQUIRE_ENABLE, containers, ci, volumes, vi,
                   backup_container, backup_container_ids, elapsed, rt, created, cleanup_i,
                   removed, call, result>>

\* mutant: every job that has exited is removed
IsRemovable_exited(status) == status # -1

\* whether the cleanup loop removes a job whose status it read (line 120)
IsRemovable(status) == ~(status # 0)

\* lines 120-125: the job did not exit with 0 and is left
CleanupLeaves ==
    /\ pc = "cleanup"
    /\ cleanup_i <= Len(backup_container_ids)
    /\ CleanupStatus.raised = "none"
    /\ ~IsRemovable(CleanupStatus.value)
    /\ cleanup_i' = cleanup_i + 1
    /\ UNCHANGED <<BACKUP_CONTAINER_COMMAND, REQUIRE_ENABLE, pc, error, containers, ci, volumes,
                   vi, backup_container, backup_container_ids, elapsed, rt, created, removed,
                   call, result>>

\* lines 120, 126: the job exited with 0; remove_container is called
CleanupChecks ==
    /\ pc = "cleanup"
    /\ cleanup_i <= Len(backup_container_ids)
    /\ CleanupStatus.raised = "none"
    /\ IsRemovable(CleanupStatus.value)
    /\ pc' = "remove"
    /\ UNCHANGED <<BACKUP_CONTAINER_COMMAND, REQUIRE_ENABLE, error, containers, ci, volumes, vi,
                   backup_container, backup_container_ids, elapsed, rt, created, cleanup_i,
                   removed, call, result>>

\* containers.py 252-259: what remove_container does with an exception of the
\* lookup or of remove(): "return" (swallowed) or "raise"
RemoveHandler(exc) == IF exc = "NotFound" THEN "return" ELSE "raise"

\* containers.py 243-260: remove_container of the job the cleanup loop is at
RemoveContainer ==
    /\ pc = "remove"
    /\ LET container_id == backup_container_ids[cleanup_i]
           docker_container == ContainersGet(rt, container_id) IN
       IF docker_container.raised = "none"
       THEN /\ rt' = [n \in JobNames |-> IF rt[n].id = container_id THEN NoJob ELSE rt[n]]
            /\ removed' = removed \cup {container_id}
            /\ cleanup_i' = cleanup_i + 1
            /\ pc' = "cleanup"
            /\ error' = error
       ELSE IF RemoveHandler(docker_container.raised) = "return"
       THEN /\ cleanup_i' = cleanup_i + 1
            /\ pc' = "cleanup"
            /\ UNCHANGED <<rt, removed, error>>
       ELSE /\ Crash(docker_container.raised)
            /\ UNCHANGED <<rt, removed, cleanup_i>>
    /\ UNCHANGED <<BACKUP_CONTAINER_COMMAND, REQUIRE_ENABLE, containers, ci, volumes, vi,
                   backup_container, backup_container_ids, elapsed, created, call, result>>

\* line 126 was the last statement: main returns
CleanupDone ==
    /\ pc = "cleanup"
    /\ cleanup_i > Len(backup_container_ids)
    /\ pc' = "done"
    /\ UNCHANGED <<BACKUP_CONTAINER_COMMAND, REQUIRE_ENABLE, error, containers, ci, volumes, vi,
                   backup_container, backup_container_ids, elapsed, rt, created, cleanup_i,
                   removed, call, result>>

\* lines 129-130: the next invocation of the program; the runtime keeps its containers
Restart ==
    /\ pc \in {"done", "crashed"}
    /\ pc' = "start"
    /\ error' = "none"
    /\ containers' = <<>>
    /\ ci' = 0
    /\ volumes' = <<>>
    /\ vi' = 0
    /\ backup_container' = None
    /\ backup_container_ids' = <<>>
    /\ elapsed' = 0
    /\ created' = {}
    /\ cleanup_i' = 0
    /\ removed' = {}
    /\ UNCHANGED <<BACKUP_CONTAINER_COMMAND, REQUIRE_ENABLE, rt, call, result>>

----------------------------------------------------------------------------
(* The runtime's own steps: a job container starts, exits, or is removed by
   someone else *)

JobStarts ==
    /\ \E n \in JobNames :
          /\ rt[n].status = "created"
          /\ rt' = [rt EXCEPT ![n].status = "running"]
    /\ UNCHANGED <<BACKUP_CONTAINER_COMMAND, REQUIRE_ENABLE, pc, error, containers, ci, volumes,
                   vi, backup_container, backup_container_ids, elapsed, created, cleanup_i,
                   removed, call, result>>

JobExits ==
    /\ \E n \in JobNames, code \in ExitCodes :
          /\ rt[n].status = "running"
          /\ rt' = [rt EXCEPT ![n].status = "exited", ![n].exit_code = code]
    /\ UNCHANGED <<BACKUP_CONTAINER_COMMAND, REQUIRE_ENABLE, pc, error, containers, ci, volumes,
                   vi, backup_container, backup_container_ids, elapsed, created, cleanup_i,
                   removed, call, result>>

JobRemovedByOther ==
    /\ \E n \in JobNames :
          /\ rt[n] # NoJob
          /\ rt' = [rt EXCEPT ![n] = NoJob]
    /\ UNCHANGED <<BACKUP_CONTAINER_COMMAND, REQUIRE_ENABLE, pc, error, containers, ci, volumes,
                   vi, backup_container, backup_container_ids, elapsed, created, cleanup_i,
                   removed, call, result>>

Next ==
    \/ StartRun
    \/ NextContainer
    \/ VolumesDone
    \/ TriggerBackupRaises
    \/ SubmitNameConflict
    \/ SubmitFails
    \/ SubmitCreates
    \/ StartPollRaises
    \/ StartPollSleeps
    \/ StartPollTimesOut
    \/ StartPollReturns
    \/ LaunchDone
    \/ WaitRaises
    \/ WaitSleeps
    \/ WaitCompletes
    \/ CleanupRaises
    \/ CleanupLeaves
    \/ CleanupChecks
    \/ RemoveContainer
    \/ CleanupDone
    \/ Restart
    \/ JobStarts
    \/ JobExits
    \/ JobRemovedByOther

Spec == Init /\ [][Next]_vars

----------------------------------------------------------------------------
(* Claims about a run *)

Tracked == Elems(backup_container_ids)

\* a step of main (not of the runtime) taken while a job is polled for its start
StartPollStep == pc = "starting" /\ (pc' # pc \/ elapsed' # elapsed)

\* the job container main is waiting to start
Submitted == ContainersGet(rt, backup_container)

\* C1: when the runtime rejects a submission with a name conflict, nothing is added
\* to the tracked list for that pair: every entry of the tracked list is the id
\* of a job this run created (and so never None).
C1_ConflictAddsNoEntry ==
    \A i \in 1..Len(backup_container_ids) :
        /\ backup_container_ids[i] # None
        /\ backup_container_ids[i] \in created

\* C2: the completion wait ends once the deadline of 120 has elapsed: the poll
\* at 125 is the first to see the deadline passed, and no later poll follows it.
C2_WaitEndsAtDeadline ==
    pc = "wait" => elapsed <= WAIT_DEADLINE + WAIT_POLL

\* a step in which main removes the job container named n: it is the tracked job
\* the cleanup loop is at, and it exited with 0
C3_RemovalStep ==
    \A n \in JobNames :
        (removed' # removed /\ rt[n] # NoJob /\ rt'[n] = NoJob) =>
            /\ pc = "remove"
            /\ rt[n].id \in Tracked
            /\ rt[n].id = backup_container_ids[cleanup_i]
            /\ rt[n].status = "exited"
            /\ rt[n].exit_code = 0
            /\ removed' = removed \cup {rt[n].id}

\* once main has returned, no tracked job that exited with 0 is left
C3_AfterCleanup ==
    pc = "done" =>
        /\ removed \subseteq Tracked
        /\ \A n \in JobNames :
              (rt[n] # NoJob /\ rt[n].id \in Tracked) =>
                  ~(rt[n].status = "exited" /\ rt[n].exit_code = 0)

\* C3: main removes a job container only in the cleanup loop, only when the job
\* is tracked and it was read as exited with status 0: a job that exited
\* non-zero, is running or never started is never removed by main; and when
\* main returns after the cleanup loop, no tracked job that exited with 0 is left.
C3_OnlyZeroExitRemoved ==
    [](C3_AfterCleanup /\ removed \subseteq Tracked) /\ [][C3_RemovalStep]_vars

\* C3 witness: main returned having removed one job and left a tracked job that
\* exited with 137
C3_Witness ==
    /\ pc = "done"
    /\ removed # {}
    /\ \E n \in JobNames :
          /\ rt[n].id \in Tracked
          /\ rt[n].status = "exited"
          /\ rt[n].exit_code = 137

\* what a poll of run_backup_container does, by the status it finds and the time
\* that has passed
C4_StartPollStep ==
    (StartPollStep /\ Submitted.raised = "none") =>
        IF Submitted.value.status = "created"
        THEN IF elapsed > START_TIMEOUT
             THEN /\ pc' = "volumes"
                  /\ vi' = vi + 1
                  /\ ci' = ci
                  /\ backup_container_ids' = backup_container_ids
                  /\ rt' = rt
                  /\ removed' = removed
                  /\ error' = "none"
             ELSE /\ pc' = "starting"
                  /\ elapsed' = elapsed + START_POLL
                  /\ backup_container_ids' = backup_container_ids
        ELSE /\ pc' = "volumes"
             /\ vi' = vi + 1
             /\ backup_container_ids' = Append(backup_container_ids, backup_container)
             /\ error' = "none"

\* C4: a job still "created" is polled every 1 time unit while no more than 30
\* have passed; polled after more than 30, the launch ends without the job being
\* removed or tracked, without an error, and main goes on to the next volume;
\* a job that has left "created" is returned and appended to the tracked list.
C4_StartTimeout ==
    [](pc = "starting" => elapsed <= START_TIMEOUT + START_POLL) /\ [][C4_StartPollStep]_vars

\* C4 witness: the first job of this run never started and is untracked and still
\* there, and the job of a later pair of the run is tracked
C4_Witness ==
    /\ rt[JobNameSeq[1]].status = "created"
    /\ rt[JobNameSeq[1]].id \in created
    /\ rt[JobNameSeq[1]].id \notin Tracked
    /\ rt[JobNameSeq[3]] # NoJob
    /\ rt[JobNameSeq[3]].id \in Tracked
    /\ pc = "wait"

\* C5: a command template with an unrecognized placeholder does not abort the
\* run: main is never ended by the error of rendering the template.
C5_TemplateErrorIsolated ==
    ~(pc = "crashed" /\ error = "KeyError")

\* C6: a tracked job that no longer exists when the completion wait polls it or
\* the cleanup loop processes it does not fail the run: after the launch phase
\* main is never ended by the runtime's "not found".
C6_GoneJobTolerated ==
    ~(pc = "crashed" /\ error = "NotFound" /\ ci > Len(containers))

\* the job names of the (eligible container, selected volume) pairs of the run
PairsOfRun ==
    UNION {{JobName(containers[i].id, v.source) :
               v \in Elems(get_included_container_volumes(
                              containers[i],
                              Get(containers[i].labels, INCLUDE_BIND_MOUNTS_LABEL, s_false)
                                  = s_true,
                              Mounts(containers[i].id)))} :
           i \in 1..Len(containers)}

\* how many entries of the tracked list are the handle of the job named n
Handles(n) == Cardinality({i \in 1..Len(backup_container_ids) :
                              backup_container_ids[i] = NewId(n)})

\* C15 as claimed: at the end of the launch phase the tracked list holds exactly
\* one handle for each (eligible container, selected volume) pair of the run.
C15_OneHandlePerPair ==
    pc = "wait" => \A n \in PairsOfRun : Handles(n) = 1

\* a step of a run that changes the tracked list appends one entry: the id of
\* the job main submitted and saw leave "created", not tracked before; or None,
\* for a submission the runtime rejected because the name is taken
C15_AppendStep ==
    (backup_container_ids' # backup_container_ids /\ pc' # "start") =>
        \/ /\ pc = "starting"
           /\ Submitted.raised = "none"
           /\ Submitted.value.status # "created"
           /\ backup_container \notin Tracked
           /\ backup_container_ids' = Append(backup_container_ids, backup_container)
        \/ /\ pc = "volumes"
           /\ rt[Request.value.name] # NoJob
           /\ backup_container_ids' = Append(backup_container_ids, None)

\* C15 as amended: within one run there is at most one handle per pair: the
\* tracked list never holds two handles for the same pair, a handle it holds is
\* the id of a job this run created for a pair of the run, and it is appended
\* when that job is seen to have left "created"; a pair whose job did not start
\* in time has no entry and a pair whose name is taken has the entry None.
C15_AtMostOneHandlePerPair ==
    /\ [](\A n \in JobNames :
             /\ Handles(n) <= 1
             /\ Handles(n) = 1 => (NewId(n) \in created /\ n \in PairsOfRun))
    /\ [][C15_AppendStep]_vars

\* C15 witness: at the end of a launch phase one pair's job is tracked, one
\* pair's job never started and is not tracked, and one pair's name was taken
C15_Witness ==
    /\ pc = "wait"
    /\ Len(backup_container_ids) = 2
    /\ None \in Tracked
    /\ Tracked \cap created # {}
    /\ created \ Tracked # {}
    /\ Cardinality(PairsOfRun) = 3

\* a step of the launch phase that gives up the pair it is at and adds no entry
\* for it to the tracked list
PairSkipped ==
    /\ pc \in {"volumes", "starting"}
    /\ vi' = vi + 1
    /\ backup_container_ids' = backup_container_ids

\* what a run absorbs: a pair is skipped without an entry only when its job is
\* still "created" after the start timeout; an entry is added at a submission
\* only when the name is taken; and a step that raises the runtime's error of a
\* failed submission ends main with it, with nothing recorded and nothing created
C16_LaunchStep ==
    /\ PairSkipped =>
          /\ pc = "starting"
          /\ Submitted.raised = "none"
          /\ Submitted.value.status = "created"
          /\ elapsed > START_TIMEOUT
    /\ (pc = "volumes" /\ backup_container_ids' # backup_container_ids) =>
          /\ rt[Request.value.name] # NoJob
          /\ backup_container_ids' = Append(backup_container_ids, None)
    /\ (error # "APIError" /\ error' = "APIError") =>
          /\ pc = "volumes"
          /\ pc' = "crashed"
          /\ backup_container_ids' = backup_container_ids
          /\ created' = created
          /\ rt' = rt

\* C16: a failure of a submission other than a name conflict is not absorbed:
\* it ends main with that error and records no job id for the pair; the launch
\* phase goes past a pair without a job id only for a name conflict or for a job
\* that did not start within the timeout (ContainerNotStartedException).
C16_OtherFailuresPropagate ==
    /\ []((error # "none") <=> (pc = "crashed"))
    /\ [][C16_LaunchStep]_vars

\* C16 witness: main was ended by the runtime's error at the second pair of a
\* run, with the first pair's job tracked and no entry for the second
C16_Witness ==
    /\ pc = "crashed"
    /\ error = "APIError"
    /\ vi = 2
    /\ Len(backup_container_ids) = 1
    /\ Tracked \subseteq created

\* the order of the steps of the launch phase: a job container is created only
\* between two launches, and its launch begins with it; a launch ends, other
\* than by an error that ends main, only when the job is seen to have left
\* "created" or to be still "created" after the start timeout; and the wait
\* begins only when the loop over the containers is exhausted
C17_LaunchOrder ==
    /\ (created' # created /\ pc' # "start") =>
          /\ pc = "volumes"
          /\ pc' = "starting"
          /\ elapsed' = 0
          /\ backup_container' \notin created
          /\ created' = created \cup {backup_container'}
    /\ (pc = "starting" /\ pc' # "starting" /\ pc' # "crashed") =>
          /\ pc' = "volumes"
          /\ vi' = vi + 1
          /\ Submitted.raised = "none"
          /\ (Submitted.value.status # "created" \/ elapsed > START_TIMEOUT)
    /\ (pc # "wait" /\ pc' = "wait") =>
          /\ pc = "containers"
          /\ ci > Len(containers)

\* C17: the launches of a run follow one another: a job is submitted only when
\* no launch is in progress, that is after the previous job was seen to have
\* left "created", or was still "created" after the start timeout, or was
\* rejected; while a launch is in progress its job is the only one of the run
\* not yet decided; and the completion wait begins only after every container
\* and volume has been gone through.
C17_SequentialSubmissions ==
    /\ [](pc = "starting" => (backup_container \in created /\ backup_container \notin Tracked))
    /\ [](pc \in {"wait", "cleanup", "remove", "done"} => ci > Len(containers))
    /\ [][C17_LaunchOrder]_vars

\* C17 witness: the third job of a run is polled for its start, after the first
\* was tracked and the second was given up
C17_Witness ==
    /\ pc = "starting"
    /\ Cardinality(created) = 3
    /\ Len(backup_container_ids) = 1
    /\ Tracked \subseteq created
    /\ backup_container \notin Tracked

\* every entry of the tracked list is the id of a job container that has exited
EveryTrackedJobExited ==
    \A i \in 1..Len(backup_container_ids) :
        \E n \in JobNames :
            /\ rt[n].id = backup_container_ids[i]
            /\ rt[n].status = "exited"

\* the cleanup loop is entered only from the wait, by a poll that finds every
\* tracked job exited or after the deadline; and main removes a job only in
\* the cleanup loop
C18_CleanupStep ==
    /\ (pc \notin {"cleanup", "remove"} /\ pc' \in {"cleanup", "remove"}) =>
          /\ pc = "wait"
          /\ pc' = "cleanup"
          /\ (EveryTrackedJobExited \/ elapsed > WAIT_DEADLINE)
          /\ rt' = rt
          /\ removed' = removed
    /\ (removed' # removed /\ pc' # "start") => pc = "remove"

\* C18: main removes no job before or during the completion wait: the first
\* removal of a run comes after the wait was left, and the wait is left for the
\* cleanup only by a poll in which every tracked job has exited (a status other
\* than -1), or after the deadline.
C18_NoEarlyCleanup ==
    /\ [](pc \in {"start", "containers", "volumes", "starting", "wait"} => removed = {})
    /\ [][C18_CleanupStep]_vars

\* C18 witness: main has removed a job of a run that tracked two jobs
C18_Witness ==
    /\ pc \in {"cleanup", "remove", "done"}
    /\ removed # {}
    /\ Len(backup_container_ids) = 2
    /\ Tracked \subseteq created
    /\ Cardinality(Tracked) = 2

\* a step of main that creates a job container takes a name no container has,
\* and changes no container that exists
C19_CreationStep ==
    (created' # created /\ pc' # "start") =>
        \A n \in JobNames :
            IF rt[n] # NoJob THEN rt'[n] = rt[n]
            ELSE rt'[n] # NoJob => (pc = "volumes" /\ n = Request.value.name)

\* a submission for a pair whose job container exists creates nothing and goes
\* on to the next pair of the run
C19_CollisionStep ==
    (/\ pc = "volumes" /\ vi <= Len(volumes)
     /\ Request.raised = "none"
     /\ rt[Request.value.name] # NoJob
     /\ vi' # vi) =>
        /\ rt' = rt
        /\ created' = created
        /\ pc' = "volumes"
        /\ error' = "none"

\* C19: while the job container of a pair exists, left by an earlier run, a later
\* run's submission for the pair collides on the name and creates no container,
\* a job for the pair is created only once the old one is gone, and the
\* collision is no failure of the run: no run is ended by an error that comes
\* from the pair that collided (the lookup of the id None it left behind).
C19_LeftJobBlocksPair ==
    /\ [](~(pc = "crashed" /\ error = "NullResource"))
    /\ [][C19_CreationStep /\ C19_CollisionStep]_vars

----------------------------------------------------------------------------
(* Function-level specifications: one call of a function of the program, its
   arguments drawn from bounded sets *)

MaxListed == 2      \* containers in a listing given to get_enabled_containers
MaxMounts == 3      \* mounts of the container given to get_included_container_volumes

\* the sequences over S of length at most n
SeqsUpTo(S, n) == UNION {[1..k -> S] : k \in 0..n}

\* the label dict with one entry per label of names whose value in values is given
Labels(names, values) ==
    [k \in {n \in names : values[n] # None} |-> values[k]]

\* main is not running: its variables keep the values they have before a run
FnInit ==
    /\ BACKUP_CONTAINER_COMMAND = GoodTemplate
    /\ REQUIRE_ENABLE = FALSE
    /\ pc = "call"
    /\ error = "none"
    /\ containers = <<>>
    /\ ci = 0
    /\ volumes = <<>>
    /\ vi = 0
    /\ backup_container = None
    /\ backup_container_ids = <<>>
    /\ elapsed = 0
    /\ rt = [n \in JobNames |-> NoJob]
    /\ created = {}
    /\ cleanup_i = 0
    /\ removed = {}
    /\ result = <<>>

\* listed containers: garrison's own, an application container, a job container
\* as main names it, one named just "garrison_", and one named "garrison";
\* each with the eligibility label absent, "true", "false" or "yes"
FilterContainers ==
    {[id |-> c[1], name |-> c[2],
      labels |-> Labels({ENABLE_LABEL}, [n \in {ENABLE_LABEL} |-> v])] :
        c \in {<<s_g0, s_garrison>>, <<s_c1, s_web>>, <<s_j1, JobName(s_c1, s_v_a)>>,
               <<s_c2, s_garrison_>>},
        v \in {None, s_true, s_false, s_yes}}

FilterCalls ==
    [listed : SeqsUpTo(FilterContainers, MaxListed),
     self_container : {None, s_g0},
     require_enabled : BOOLEAN]

FilterInit == FnInit /\ call \in FilterCalls

FilterReturns ==
    /\ pc = "call"
    /\ result' = get_enabled_containers(call.listed, call.self_container, call.require_enabled)
    /\ pc' = "returned"
    /\ UNCHANGED <<mainVars, call>>

SpecFilter == FilterInit /\ [][FilterReturns]_vars

\* containers for the volume selector: "web", in the project "shop" or in none,
\* with some include and exclude labels
s_data_cache == <<"d","a","t","a",",","c","a","c","h","e">>    \* "data,cache"

SelectorContainers ==
    {ContainerInfoOf(
        [id |-> s_c1, name |-> s_web,
         labels |-> Labels({ENABLE_LABEL, COMPOSE_PROJECT_LABEL, VOLUME_INCLUDE_LABEL,
                            VOLUME_EXCLUDE_LABEL},
                           [n \in {ENABLE_LABEL, COMPOSE_PROJECT_LABEL, VOLUME_INCLUDE_LABEL,
                                   VOLUME_EXCLUDE_LABEL} |->
                               CASE n = ENABLE_LABEL -> s_true
                                 [] n = COMPOSE_PROJECT_LABEL -> p
                                 [] n = VOLUME_INCLUDE_LABEL -> inc
                                 [] n = VOLUME_EXCLUDE_LABEL -> exc])]) :
        p \in {None, s_shop},
        inc \in {None, s_empty, s_data, s_data_cache, s_etc_conf},
        exc \in {None, s_empty, s_cache, s_data_cache}}

SelectorMounts ==
    {[Type |-> "volume", Name |-> s_shop_data, Source |-> s_v_a, Destination |-> s_d_data],
     [Type |-> "volume", Name |-> s_shop_cache, Source |-> s_v_b, Destination |-> s_d_cache],
     [Type |-> "volume", Name |-> s_data, Source |-> s_v_c, Destination |-> s_d_pg],
     [Type |-> "bind", Name |-> None, Source |-> s_etc_conf, Destination |-> s_d_conf],
     [Type |-> "tmpfs", Name |-> None, Source |-> s_empty, Destination |-> s_bak]}

SelectorCalls ==
    [container : SelectorContainers,
     include_bind_mount : BOOLEAN,
     mounts : SeqsUpTo(SelectorMounts, MaxMounts)]

SelectorInit == FnInit /\ call \in SelectorCalls

SelectorReturns ==
    /\ pc = "call"
    /\ result' = get_included_container_volumes(call.container, call.include_bind_mount,
                                                call.mounts)
    /\ pc' = "returned"
    /\ UNCHANGED <<mainVars, call>>

SpecSelector == SelectorInit /\ [][SelectorReturns]_vars

\* values of BACKUP_CONTAINER_VOLUMES
s_x_bak == <<"/","b","a","k",":","/","b","a","k">>                          \* "/bak:/bak"
s_x_bak_ro == <<"/","b","a","k",":","/","b","a","k",":","r","o">>           \* "/bak:/bak:ro"
s_x_two == <<"/","b","a","k",":","/","b","a","k",":","z",",","/","v","/","c",":","/","p","g">>
                                                                            \* "/bak:/bak:z,/v/c:/pg"
s_x_same == <<"s","h","o","p","_","d","a","t","a",":","/","b","a","k">>     \* "shop_data:/bak"
s_x_one == <<"/","b","a","k">>                                              \* "/bak"

ExtraVolumeSpecs == {s_empty, s_x_bak, s_x_bak_ro, s_x_two, s_x_same, s_x_one}

\* volume records as get_included_container_volumes returns them: those of the
\* containers of a run, and the source /v/a under another name at another place
JobVolumes ==
    {[type |-> "volume", name |-> s_shop_data, source |-> s_v_a, destination |-> s_d_data],
     [type |-> "volume", name |-> s_data, source |-> s_v_a, destination |-> s_bak],
     [type |-> "volume", name |-> s_pgdata, source |-> s_v_c, destination |-> s_d_pg],
     [type |-> "bind", name |-> None, source |-> s_etc_conf, destination |-> s_d_conf]}

JobCalls ==
    [container : {ContainerInfoOf(WebContainer), ContainerInfoOf(DbContainer)},
     volume : JobVolumes,
     server_name : {s_server, s_db},
     command_template : {GoodTemplate, BadTemplate},
     backup_container_volumes : ExtraVolumeSpecs]

JobInit == FnInit /\ call \in JobCalls

JobReturns ==
    /\ pc = "call"
    /\ result' = trigger_backup(call.container, call.volume, call.server_name,
                                call.command_template, call.backup_container_volumes)
    /\ pc' = "returned"
    /\ UNCHANGED <<mainVars, call>>

SpecJob == JobInit /\ [][JobReturns]_vars

----------------------------------------------------------------------------
(* Claims about the functions *)

\* the key under which the target volume is known to the runtime
TargetKey(volume) == IF volume.name # None THEN volume.name ELSE volume.source

\* C7: whatever the extra mounts and the kind of the target volume, the volume
\* mapping of a submission holds the target volume at its destination with mode
\* "ro"; an extra mount source:dest has mode "rw", source:dest:mode that mode.
C7_TargetReadOnly ==
    (pc = "returned" /\ result.raised = "none") =>
        LET mapping == result.value.volumes IN
        /\ TargetKey(call.volume) \in DOMAIN mapping
        /\ mapping[TargetKey(call.volume)].bind = call.volume.destination
        /\ mapping[TargetKey(call.volume)].mode = s_ro
        /\ \A item \in Elems(Split(call.backup_container_volumes, ",")) :
              LET parts == Split(item, ":") IN
              /\ Len(parts) = 2 =>
                    /\ parts[1] \in DOMAIN mapping
                    /\ mapping[parts[1]].mode = s_rw
              /\ Len(parts) = 3 =>
                    /\ parts[1] \in DOMAIN mapping
                    /\ mapping[parts[1]].mode = parts[3]

\* C8: no container whose name starts with "garrison_" is returned by
\* get_enabled_containers, whatever its eligibility label and whatever
\* require_enabled is, and neither is the container the program runs in: no job
\* is ever launched for a job container or for garrison itself.
C8_OwnContainersExcluded ==
    pc = "returned" =>
        \A i \in 1..Len(result) :
            /\ ~StartsWith(result[i].name, s_garrison_)
            /\ ~(call.self_container # None /\ result[i].id = call.self_container)

\* C8 witness: a call that lists a job container labelled "true" and garrison's
\* own container
C8_Witness ==
    /\ pc = "returned"
    /\ Len(call.listed) = 2
    /\ call.listed[1].name = JobName(s_c1, s_v_a)
    /\ Get(call.listed[1].labels, ENABLE_LABEL, None) = s_true
    /\ call.self_container = s_g0
    /\ call.listed[2].id = s_g0
    /\ result = <<>>

\* what C9 says of a container with these labels
C9_Included(labels, require_enabled) ==
    IF ENABLE_LABEL \in DOMAIN labels /\ labels[ENABLE_LABEL] = s_false THEN FALSE
    ELSE IF ~require_enabled THEN TRUE
    ELSE ENABLE_LABEL \in DOMAIN labels /\ labels[ENABLE_LABEL] = s_true

WebScenario ==
    [container |-> ContainerInfoOf(WebContainer),
     include_bind_mount |-> FALSE,
     mounts |-> <<[Type |-> "volume", Name |-> s_shop_data, Source |-> s_v_a,
                   Destination |-> s_d_data],
                  [Type |-> "bind", Name |-> None, Source |-> s_etc_conf,
                   Destination |-> s_d_conf]>>]

\* C10 as claimed: the selected records carry the logical name without the
\* "<project>_" prefix; the scenario selects exactly one record, named "data".
C10_NamesStripped ==
    pc = "returned" =>
        /\ call = WebScenario => (Len(result) = 1 /\ result[1].name = s_data)
        /\ Truthy(call.container.project) =>
              \A i \in 1..Len(result) :
                  result[i].name # None =>
                      \E j \in 1..Len(call.mounts) :
                          /\ call.mounts[j].Name # None
                          /\ result[i].name =
                                 RemovePrefix(call.mounts[j].Name,
                                              Concat(call.container.project, <<"_">>))

\* C10 as amended: the "<project>_" prefix is stripped only to match the include
\* and exclude lists (an include list "data" selects the volume "shop_data" of
\* project "shop"); every selected record carries the name the runtime reports,
\* and the scenario selects exactly one record, named "shop_data".
C10_NamesAsReported ==
    pc = "returned" =>
        /\ call = WebScenario =>
              result = <<[type |-> "volume", name |-> s_shop_data, source |-> s_v_a,
                          destination |-> s_d_data]>>
        /\ \A i \in 1..Len(result) :
              \E j \in 1..Len(call.mounts) :
                  result[i] = [type |-> call.mounts[j].Type,
                               name |-> call.mounts[j].Name,
                               source |-> call.mounts[j].Source,
                               destination |-> call.mounts[j].Destination]
        /\ \A j \in 1..Len(call.mounts) :
              (/\ call.container.project = s_shop
               /\ Get(call.container.labels, VOLUME_INCLUDE_LABEL, None) = s_data
               /\ VOLUME_EXCLUDE_LABEL \notin DOMAIN call.container.labels
               /\ call.mounts[j].Name = s_shop_data) =>
                  \E i \in 1..Len(result) : result[i].name = s_shop_data

\* C10 witness: the scenario's call has returned
C10_Witness ==
    /\ pc = "returned"
    /\ call = WebScenario
    /\ Len(result) = 1

----------------------------------------------------------------------------
(* Claims about the volume selector *)

\* the record of mount j of the call is in the result
Selected(j) == VolumeInfoOf(call.container, call.mounts[j]) \in Elems(result)

\* the entries of a comma-separated label of the call's container
Entries(label) == Elems(Split(call.container.labels[label], ","))

\* the name a list entry has to equal for the mount to match: the given name
\* without the "<project>_" prefix
Stripped(name) ==
    IF Truthy(call.container.project)
    THEN RemovePrefix(name, Concat(call.container.project, <<"_">>))
    ELSE name

\* C11 as claimed: a mount without a logical name is selected exactly when it is
\* not a bind mount or include_bind_mount is true, whatever the include and
\* exclude lists of the container are.
C11_NamelessByFlagOnly ==
    pc = "returned" =>
        \A j \in 1..Len(call.mounts) :
            call.mounts[j].Name = None =>
                (Selected(j) <=>
                    (call.mounts[j].Type # "bind" \/ call.include_bind_mount))

\* C11 as amended: a mount without a logical name is matched against the lists
\* by its source path: it is selected exactly when it is not a bind mount or
\* include_bind_mount is true, and there is no include label or the source is
\* one of its entries, and there is no exclude label or the source is none of
\* its entries.
C11_NamelessBySource ==
    pc = "returned" =>
        \A j \in 1..Len(call.mounts) :
            call.mounts[j].Name = None =>
                (Selected(j) <=>
                    /\ (call.mounts[j].Type # "bind" \/ call.include_bind_mount)
                    /\ \/ VOLUME_INCLUDE_LABEL \notin DOMAIN call.container.labels
                       \/ Stripped(call.mounts[j].Source) \in Entries(VOLUME_INCLUDE_LABEL)
                    /\ \/ VOLUME_EXCLUDE_LABEL \notin DOMAIN call.container.labels
                       \/ Stripped(call.mounts[j].Source) \notin Entries(VOLUME_EXCLUDE_LABEL))

\* C11 witness: with the include list "/etc/conf" and bind mounts included, of
\* the bind mount /etc/conf and a tmpfs mount only the bind mount is selected
C11_Witness ==
    /\ pc = "returned"
    /\ call.include_bind_mount
    /\ Get(call.container.labels, VOLUME_INCLUDE_LABEL, None) = s_etc_conf
    /\ VOLUME_EXCLUDE_LABEL \notin DOMAIN call.container.labels
    /\ Len(call.mounts) = 2
    /\ call.mounts[1].Type = "bind" /\ call.mounts[1].Name = None
    /\ call.mounts[2].Type = "tmpfs" /\ call.mounts[2].Name = None
    /\ Len(result) = 1
    /\ result[1].source = s_etc_conf

\* the record the selector returns for a mount
RecordOf(mount) ==
    [type |-> mount.Type, name |-> mount.Name, source |-> mount.Source,
     destination |-> mount.Destination]

\* the records are those of some of the mounts, in the order of the mounts
RECURSIVE InOrderOf(_, _)
InOrderOf(records, mounts) ==
    IF records = <<>> THEN TRUE
    ELSE IF mounts = <<>> THEN FALSE
    ELSE IF Head(records) = RecordOf(Head(mounts))
         THEN \/ InOrderOf(Tail(records), Tail(mounts))
              \/ InOrderOf(records, Tail(mounts))
         ELSE InOrderOf(records, Tail(mounts))

\* C12: with include_bind_mount false no record of type "bind" is in the result
\* of get_included_container_volumes, whatever the include and exclude labels
\* are; and the records of the result are in the order in which the runtime
\* reports the mounts.
C12_NoBindInOrder ==
    pc = "returned" =>
        /\ ~call.include_bind_mount =>
              \A i \in 1..Len(result) : result[i].type # "bind"
        /\ InOrderOf(result, call.mounts)

\* C12 witness: without labels and without bind mounts, of the volume
\* "shop_cache", the bind mount /etc/conf and the volume "shop_data" the two
\* volumes are returned, "shop_cache" first
C12_Witness ==
    /\ pc = "returned"
    /\ ~call.include_bind_mount
    /\ VOLUME_INCLUDE_LABEL \notin DOMAIN call.container.labels
    /\ VOLUME_EXCLUDE_LABEL \notin DOMAIN call.container.labels
    /\ Len(call.mounts) = 3
    /\ call.mounts[1].Name = s_shop_cache
    /\ call.mounts[2].Type = "bind"
    /\ call.mounts[3].Name = s_shop_data
    /\ Len(result) = 2
    /\ result[1].name = s_shop_cache
    /\ result[2].name = s_shop_data

\* C13: a mount whose logical name, without the "<project>_" prefix, is on the
\* include list and on the exclude list of its container is not selected; and a
\* selected mount is on the include list when the container has one and not on
\* the exclude list when the container has one.
C13_ExcludeWins ==
    pc = "returned" =>
        \A j \in 1..Len(call.mounts) :
            call.mounts[j].Name # None =>
                LET name == Stripped(call.mounts[j].Name)
                    labels == call.container.labels IN
                /\ (/\ VOLUME_INCLUDE_LABEL \in DOMAIN labels
                    /\ VOLUME_EXCLUDE_LABEL \in DOMAIN labels
                    /\ name \in Entries(VOLUME_INCLUDE_LABEL)
                    /\ name \in Entries(VOLUME_EXCLUDE_LABEL)) => ~Selected(j)
                /\ Selected(j) =>
                      /\ \/ VOLUME_INCLUDE_LABEL \notin DOMAIN labels
                         \/ name \in Entries(VOLUME_INCLUDE_LABEL)
                      /\ \/ VOLUME_EXCLUDE_LABEL \notin DOMAIN labels
                         \/ name \notin Entries(VOLUME_EXCLUDE_LABEL)

\* C13 witness: in the project "shop" with the include list "data,cache" and the
\* exclude list "cache", of the volumes "shop_cache" and "shop_data" only
\* "shop_data" is returned
C13_Witness ==
    /\ pc = "returned"
    /\ call.container.project = s_shop
    /\ Get(call.container.labels, VOLUME_INCLUDE_LABEL, None) = s_data_cache
    /\ Get(call.container.labels, VOLUME_EXCLUDE_LABEL, None) = s_cache
    /\ Len(call.mounts) = 2
    /\ call.mounts[1].Name = s_shop_cache
    /\ call.mounts[2].Name = s_shop_data
    /\ Len(result) = 1
    /\ result[1].name = s_shop_data

----------------------------------------------------------------------------
(* Claims about the job of a pair *)

\* C14: the name _trigger_backup submits is "garrison_" + container id + "_" +
\* md5 hex digest of the volume's source, and every call for the same container
\* id and the same source submits that name, whatever the server name, the
\* volume's logical name and destination, the command template and the extra
\* mounts are.
C14_NameByIdAndSource ==
    (pc = "returned" /\ result.raised = "none") =>
        /\ result.value.name =
               Concat(s_garrison_,
                      Concat(call.container.id,
                             Concat(<<"_">>, md5hex(call.volume.source))))
        /\ \A other \in JobCalls :
               (/\ other.container.id = call.container.id
                /\ other.volume.source = call.volume.source) =>
                   LET r == trigger_backup(other.container, other.volume,
                                           other.server_name, other.command_template,
                                           other.backup_container_volumes) IN
                   r.raised = "none" => r.value.name = result.value.name

\* C14 witness: the job of container c1 for the source /v/a, reported under the
\* name "data" at /bak, has the name of the hash of "/v/a"
C14_Witness ==
    /\ pc = "returned"
    /\ result.raised = "none"
    /\ call.container.id = s_c1
    /\ call.volume.source = s_v_a
    /\ call.volume.name = s_data
    /\ call.volume.destination = s_bak
    /\ call.server_name = s_db
    /\ result.value.name = Concat(s_garrison_, Concat(s_c1, Concat(<<"_">>, md5_v_a)))

====
